---------------------------- MODULE Spec2Model ----------------------------
(***************************************************************************)
(* A model of icon-kitchen-gitlab-sync: the fragment codec (codec.py), the *)
(* configuration merger and the batch orchestrator (cli.py), the download  *)
(* collaborator (downloader.py) and the image compressor and remote upload *)
(* client (gitlab_uploader.py).                                            *)
(*                                                                         *)
(* Text is a sequence of one-character strings; the one non-ASCII          *)
(* character of the model is written "U+00E9".  Bytes are 0..255.          *)
(* A JSON value is a record [t, n, s, items]: t is the type tag, n the     *)
(* number (or 0/1 of a boolean), s the characters of a string, items the   *)
(* members of an array (k = <<>>) or of an object, in insertion order, as  *)
(* a Python dict keeps them.                                               *)
(***************************************************************************)
EXTENDS Integers, Sequences, FiniteSets, TLC

VARIABLES
    \* codec.py: one encode followed by one decode
    codec_pc, obj, mtime, fragment, decoded,
    \* cli.py _deep_merge: one call
    merge_pc, base, override, result,
    \* gitlab_uploader.py compress_image_to_size: one call
    cmp_pc, output_format, max_size, img_size, q_index, quality, size,
    width, height, attempts, rounds, encoded,
    \* gitlab_uploader.py _upload_avatars: one call
    up_pc, avatars, up_i, exact_matches, prompts, choice, resolved, status, reported,
    \* cli.py main: one run
    main_pc, args, doc, idx, item_names, item_overrides, urls, exit,
    ext_fs, sub_fs, extracted_dirs, archives, missing, collected, handed, reached

codecVars == <<codec_pc, obj, mtime, fragment, decoded>>
mergeVars == <<merge_pc, base, override, result>>
compressVars == <<cmp_pc, output_format, max_size, img_size, q_index, quality, size,
                  width, height, attempts, rounds, encoded>>
uploadVars == <<up_pc, avatars, up_i, exact_matches, prompts, choice, resolved,
                status, reported>>
mainVars == <<main_pc, args, doc, idx, item_names, item_overrides, urls, exit,
              ext_fs, sub_fs, extracted_dirs, archives, missing, collected, handed, reached>>
vars == <<codecVars, mergeVars, compressVars, uploadVars, mainVars>>

-----------------------------------------------------------------------------
(* Bounds of the model *)

\* longest string value drawn as an input of the codec
MaxStrLen == 2
\* largest number drawn as a leaf of the merged objects
MaxNum == 1
\* widest and tallest image drawn as an input of the compressor, besides
\* the 512px icon
MaxDim == 140
\* most projects in one search response
MaxProjects == 3
\* most responses the user gives to one selection prompt before an accepted one
MaxPrompts == 2
\* most entries of the items array of the input document
MaxItems == 2

-----------------------------------------------------------------------------
(* Sequences *)

RECURSIVE Flatten(_)
Flatten(ss) == IF ss = <<>> THEN <<>> ELSE Head(ss) \o Flatten(Tail(ss))

SeqsUpTo(S, n) == UNION { [1..k -> S] : k \in 0..n }

-----------------------------------------------------------------------------
(* JSON values *)

JNull == [t |-> "null", n |-> 0, s |-> <<>>, items |-> <<>>]
JBool(b) == [t |-> "bool", n |-> IF b THEN 1 ELSE 0, s |-> <<>>, items |-> <<>>]
JNum(i) == [t |-> "num", n |-> i, s |-> <<>>, items |-> <<>>]
JStr(cs) == [t |-> "str", n |-> 0, s |-> cs, items |-> <<>>]
JArr(vs) == [t |-> "arr", n |-> 0, s |-> <<>>,
             items |-> [i \in 1..Len(vs) |-> [k |-> <<>>, v |-> vs[i]]]]
JObj(kvs) == [t |-> "obj", n |-> 0, s |-> <<>>, items |-> kvs]
KV(key, val) == [k |-> key, v |-> val]

IsMapping(x) == x.t = "obj"

Keys(d) == { d.items[i].k : i \in 1..Len(d.items) }
Has(d, key) == key \in Keys(d)
Get(d, key) == d.items[CHOOSE i \in 1..Len(d.items) : d.items[i].k = key].v
\* d[key] = val on a dict: an existing key keeps its place, a new one is appended
DictSet(d, key, val) ==
    IF Has(d, key)
    THEN [d EXCEPT !.items =
             [i \in 1..Len(d.items) |->
                 IF d.items[i].k = key THEN KV(key, val) ELSE d.items[i]]]
    ELSE [d EXCEPT !.items = Append(d.items, KV(key, val))]

\* Python's == on decoded JSON: dicts compare by key set and values (the
\* order of insertion does not count), lists element by element.
RECURSIVE JsonEq(_, _)
JsonEq(x, y) ==
    /\ x.t = y.t
    /\ CASE x.t = "obj" ->
              /\ Keys(x) = Keys(y)
              /\ \A key \in Keys(x) : JsonEq(Get(x, key), Get(y, key))
         [] x.t = "arr" ->
              /\ Len(x.items) = Len(y.items)
              /\ \A i \in 1..Len(x.items) : JsonEq(x.items[i].v, y.items[i].v)
         [] x.t = "str" -> x.s = y.s
         [] OTHER -> x.n = y.n

-----------------------------------------------------------------------------
(* codec.py *)

AsciiChars == << " ", "\"", ",", "-", "0", "1", "2", "3", "4", "5", "6", "7",
                 "8", "9", ":", "[", "\\", "]", "a", "b", "c", "d", "e", "f",
                 "l", "n", "p", "q", "r", "s", "t", "u", "x", "y", "{", "}" >>
AsciiCodes == << 32, 34, 44, 45, 48, 49, 50, 51, 52, 53, 54, 55,
                 56, 57, 58, 91, 92, 93, 97, 98, 99, 100, 101, 102,
                 108, 110, 112, 113, 114, 115, 116, 117, 120, 121, 123, 125 >>
NonAscii == "U+00E9"
NonAsciiUtf8 == <<195, 169>>
NonAsciiEscape == <<"\\", "u", "0", "0", "e", "9">>

IsAscii(c) == \E i \in 1..Len(AsciiChars) : AsciiChars[i] = c
CodeOf(c) == AsciiCodes[CHOOSE i \in 1..Len(AsciiChars) : AsciiChars[i] = c]
IsAsciiCode(b) == \E i \in 1..Len(AsciiCodes) : AsciiCodes[i] = b
CharOf(b) == AsciiChars[CHOOSE i \in 1..Len(AsciiCodes) : AsciiCodes[i] = b]

\* str.encode("utf-8")
Utf8Encode(cs) ==
    Flatten([i \in 1..Len(cs) |->
                IF cs[i] = NonAscii THEN NonAsciiUtf8 ELSE <<CodeOf(cs[i])>>])

\* bytes.decode("utf-8"): [ok, s]; ok is FALSE where Python raises
RECURSIVE Utf8Decode(_)
Utf8Decode(bs) ==
    IF bs = <<>> THEN [ok |-> TRUE, s |-> <<>>]
    ELSE IF IsAsciiCode(bs[1])
    THEN LET r == Utf8Decode(Tail(bs))
         IN [ok |-> r.ok, s |-> <<CharOf(bs[1])>> \o r.s]
    ELSE IF Len(bs) >= 2 /\ SubSeq(bs, 1, 2) = NonAsciiUtf8
    THEN LET r == Utf8Decode(SubSeq(bs, 3, Len(bs)))
         IN [ok |-> r.ok, s |-> <<NonAscii>> \o r.s]
    ELSE [ok |-> FALSE, s |-> <<>>]

Digit == <<"0", "1", "2", "3", "4", "5", "6", "7", "8", "9">>
IsDigit(c) == \E i \in 1..10 : Digit[i] = c
DigitVal(c) == (CHOOSE i \in 1..10 : Digit[i] = c) - 1

RECURSIVE NatText(_)
NatText(i) == IF i < 10 THEN <<Digit[i + 1]>>
              ELSE NatText(i \div 10) \o <<Digit[(i % 10) + 1]>>
IntText(i) == IF i < 0 THEN <<"-">> \o NatText(0 - i) ELSE NatText(i)

\* json.dumps of a string: quoted, with " and \ escaped and (ensure_ascii)
\* every non-ASCII character written \uXXXX
EscapeChar(c) ==
    IF c = "\"" THEN <<"\\", "\"">>
    ELSE IF c = "\\" THEN <<"\\", "\\">>
    ELSE IF c = NonAscii THEN NonAsciiEscape
    ELSE <<c>>
StringText(cs) ==
    <<"\"">> \o Flatten([i \in 1..Len(cs) |-> EscapeChar(cs[i])]) \o <<"\"">>

\* json.dumps(obj, separators=(",", ":"))
RECURSIVE JsonDumps(_)
JsonDumps(x) ==
    CASE x.t = "null" -> <<"n", "u", "l", "l">>
      [] x.t = "bool" -> IF x.n = 1 THEN <<"t", "r", "u", "e">>
                         ELSE <<"f", "a", "l", "s", "e">>
      [] x.t = "num" -> IntText(x.n)
      [] x.t = "str" -> StringText(x.s)
      [] x.t = "arr" ->
            <<"[">> \o
            Flatten([i \in 1..Len(x.items) |->
                        (IF i > 1 THEN <<",">> ELSE <<>>) \o JsonDumps(x.items[i].v)])
            \o <<"]">>
      [] x.t = "obj" ->
            <<"{">> \o
            Flatten([i \in 1..Len(x.items) |->
                        (IF i > 1 THEN <<",">> ELSE <<>>)
                        \o StringText(x.items[i].k) \o <<":">>
                        \o JsonDumps(x.items[i].v)])
            \o <<"}">>


\* json.loads: [ok, v, rest]; ok is FALSE where Python raises JSONDecodeError.
\* Numbers are integers; of the escapes, \" \\ and the \uXXXX of NonAscii.
ParseFail == [ok |-> FALSE, v |-> JNull, rest |-> <<>>]
ParseOk(val, cs) == [ok |-> TRUE, v |-> val, rest |-> cs]

RECURSIVE SkipWs(_)
SkipWs(cs) == IF cs # <<>> /\ cs[1] = " " THEN SkipWs(Tail(cs)) ELSE cs

StartsWith(cs, word) == Len(cs) >= Len(word) /\ SubSeq(cs, 1, Len(word)) = word
Drop(cs, k) == SubSeq(cs, k + 1, Len(cs))

\* the characters of a string literal after its opening quote
RECURSIVE ParseStringBody(_)
ParseStringBody(cs) ==
    IF cs = <<>> THEN ParseFail
    ELSE IF cs[1] = "\"" THEN ParseOk(JStr(<<>>), Tail(cs))
    ELSE IF cs[1] = "\\"
    THEN IF Len(cs) >= 2 /\ cs[2] \in {"\"", "\\"}
         THEN LET r == ParseStringBody(Drop(cs, 2))
              IN IF r.ok THEN ParseOk(JStr(<<cs[2]>> \o r.v.s), r.rest) ELSE ParseFail
         ELSE IF StartsWith(cs, NonAsciiEscape)
         THEN LET r == ParseStringBody(Drop(cs, Len(NonAsciiEscape)))
              IN IF r.ok THEN ParseOk(JStr(<<NonAscii>> \o r.v.s), r.rest) ELSE ParseFail
         ELSE ParseFail
    ELSE LET r == ParseStringBody(Tail(cs))
         IN IF r.ok THEN ParseOk(JStr(<<cs[1]>> \o r.v.s), r.rest) ELSE ParseFail

\* the digits of [1-9][0-9]* after the first: acc is the value so far
RECURSIVE ParseDigits(_, _)
ParseDigits(cs, acc) ==
    IF cs # <<>> /\ IsDigit(cs[1])
    THEN ParseDigits(Tail(cs), acc * 10 + DigitVal(cs[1]))
    ELSE ParseOk(JNum(acc), cs)

\* -?(0|[1-9][0-9]*)
ParseNat(cs) ==
    IF cs = <<>> \/ ~IsDigit(cs[1]) THEN ParseFail
    ELSE IF cs[1] = "0" THEN ParseOk(JNum(0), Tail(cs))
    ELSE ParseDigits(Tail(cs), DigitVal(cs[1]))
ParseNumber(cs) ==
    IF cs[1] = "-"
    THEN LET r == ParseNat(Tail(cs))
         IN IF r.ok THEN ParseOk(JNum(0 - r.v.n), r.rest) ELSE ParseFail
    ELSE ParseNat(cs)

RECURSIVE ParseValue(_)
RECURSIVE ParseElements(_, _)
RECURSIVE ParseMembers(_, _)

ParseValue(text) ==
    LET cs == SkipWs(text)
    IN IF cs = <<>> THEN ParseFail
       ELSE CASE cs[1] = "\"" -> ParseStringBody(Tail(cs))
              [] cs[1] = "{" ->
                    LET c == SkipWs(Tail(cs))
                    IN IF c # <<>> /\ c[1] = "}" THEN ParseOk(JObj(<<>>), Tail(c))
                       ELSE ParseMembers(c, JObj(<<>>))
              [] cs[1] = "[" ->
                    LET c == SkipWs(Tail(cs))
                    IN IF c # <<>> /\ c[1] = "]" THEN ParseOk(JArr(<<>>), Tail(c))
                       ELSE ParseElements(c, <<>>)
              [] StartsWith(cs, <<"n", "u", "l", "l">>) -> ParseOk(JNull, Drop(cs, 4))
              [] StartsWith(cs, <<"t", "r", "u", "e">>) -> ParseOk(JBool(TRUE), Drop(cs, 4))
              [] StartsWith(cs, <<"f", "a", "l", "s", "e">>) ->
                    ParseOk(JBool(FALSE), Drop(cs, 5))
              [] cs[1] = "-" \/ IsDigit(cs[1]) -> ParseNumber(cs)
              [] OTHER -> ParseFail

ParseElements(cs, acc) ==
    LET r == ParseValue(cs)
        c == SkipWs(r.rest)
    IN IF ~r.ok \/ c = <<>> THEN ParseFail
       ELSE IF c[1] = "," THEN ParseElements(Tail(c), Append(acc, r.v))
       ELSE IF c[1] = "]" THEN ParseOk(JArr(Append(acc, r.v)), Tail(c))
       ELSE ParseFail

ParseMembers(text, d) ==
    LET cs == SkipWs(text)
    IN IF cs = <<>> \/ cs[1] # "\"" THEN ParseFail
       ELSE LET key == ParseStringBody(Tail(cs))
                c1 == SkipWs(key.rest)
            IN IF ~key.ok \/ c1 = <<>> \/ c1[1] # ":" THEN ParseFail
               ELSE LET r == ParseValue(Tail(c1))
                        c2 == SkipWs(r.rest)
                    IN IF ~r.ok \/ c2 = <<>> THEN ParseFail
                       ELSE IF c2[1] = ","
                       THEN ParseMembers(Tail(c2), DictSet(d, key.v.s, r.v))
                       ELSE IF c2[1] = "}"
                       THEN ParseOk(DictSet(d, key.v.s, r.v), Tail(c2))
                       ELSE ParseFail

JsonLoads(text) ==
    LET r == ParseValue(text)
    IN IF r.ok /\ SkipWs(r.rest) = <<>> THEN ParseOk(r.v, <<>>) ELSE ParseFail

\* gzip: the ten-byte header (magic, deflate, no flags, the time of the call,
\* best compression, unknown OS), the deflate stream, then CRC and length.
\* The deflate stream is one stored block and the CRC a byte sum: what the
\* codec relies on is that decompress inverts compress and checks the frame.
\* The texts of the model are far shorter than 2^32 bytes, where the length
\* field would wrap.
LE32(i) == <<i % 256, (i \div 256) % 256, (i \div 65536) % 256, (i \div 16777216) % 256>>
FromLE32(bs) == bs[1] + 256 * bs[2] + 65536 * bs[3] + 16777216 * bs[4]
RECURSIVE ByteSum(_)
ByteSum(bs) == IF bs = <<>> THEN 0 ELSE Head(bs) + ByteSum(Tail(bs))
GzipMagic == <<31, 139, 8, 0>>
GzipTail == <<2, 255>>
Deflate(data) ==
    <<1, Len(data) % 256, Len(data) \div 256,
      255 - (Len(data) % 256), 255 - (Len(data) \div 256)>> \o data
GzipCompress(data, time) ==
    GzipMagic \o LE32(time) \o GzipTail \o Deflate(data)
    \o LE32(ByteSum(data)) \o LE32(Len(data))

\* gzip.decompress: [ok, data]; ok is FALSE where Python raises
GzipFail == [ok |-> FALSE, data |-> <<>>]
GzipDecompress(raw) ==
    IF Len(raw) < 23 \/ SubSeq(raw, 1, 4) # GzipMagic THEN GzipFail
    ELSE LET n == raw[12] + 256 * raw[13]
             data == SubSeq(raw, 16, 15 + n)
         IN IF /\ raw[11] = 1
               /\ raw[14] = 255 - raw[12] /\ raw[15] = 255 - raw[13]
               /\ Len(raw) = 23 + n
               /\ FromLE32(SubSeq(raw, 16 + n, 19 + n)) = ByteSum(data)
               /\ FromLE32(SubSeq(raw, 20 + n, 23 + n)) = n
            THEN [ok |-> TRUE, data |-> data]
            ELSE GzipFail

B64Alphabet ==
    << "A", "B", "C", "D", "E", "F", "G", "H", "I", "J", "K", "L", "M", "N", "O", "P",
       "Q", "R", "S", "T", "U", "V", "W", "X", "Y", "Z", "a", "b", "c", "d", "e", "f",
       "g", "h", "i", "j", "k", "l", "m", "n", "o", "p", "q", "r", "s", "t", "u", "v",
       "w", "x", "y", "z", "0", "1", "2", "3", "4", "5", "6", "7", "8", "9", "+", "/" >>
IsB64(c) == \E i \in 1..64 : B64Alphabet[i] = c
B64Val(c) == (CHOOSE i \in 1..64 : B64Alphabet[i] = c) - 1
B64Char(v) == B64Alphabet[v + 1]

\* base64.b64encode
RECURSIVE B64Encode(_)
B64Encode(bs) ==
    IF bs = <<>> THEN <<>>
    ELSE IF Len(bs) = 1
    THEN <<B64Char(bs[1] \div 4), B64Char((bs[1] % 4) * 16), "=", "=">>
    ELSE IF Len(bs) = 2
    THEN <<B64Char(bs[1] \div 4), B64Char((bs[1] % 4) * 16 + bs[2] \div 16),
           B64Char((bs[2] % 16) * 4), "=">>
    ELSE <<B64Char(bs[1] \div 4), B64Char((bs[1] % 4) * 16 + bs[2] \div 16),
           B64Char((bs[2] % 16) * 4 + bs[3] \div 64), B64Char(bs[3] % 64)>>
         \o B64Encode(Drop(bs, 3))

\* the bytes of whole and partial groups of base64 digits
RECURSIVE B64Groups(_)
B64Groups(ds) ==
    IF Len(ds) < 2 THEN <<>>
    ELSE LET b1 == B64Val(ds[1]) * 4 + B64Val(ds[2]) \div 16
         IN IF Len(ds) = 2 THEN <<b1>>
            ELSE LET b2 == (B64Val(ds[2]) % 16) * 16 + B64Val(ds[3]) \div 4
                 IN IF Len(ds) = 3 THEN <<b1, b2>>
                    ELSE <<b1, b2, (B64Val(ds[3]) % 4) * 64 + B64Val(ds[4])>>
                         \o B64Groups(Drop(ds, 4))

\* base64.b64decode (not validating): characters outside the alphabet are
\* dropped, a last group of 2 or 3 digits needs its padding, one of 1 digit
\* is an error.  [ok, data]
B64Decode(cs) ==
    LET ds == SelectSeq(cs, IsB64)
        pads == Len(SelectSeq(cs, LAMBDA c : c = "="))
        q == Len(ds) % 4
    IN IF q = 1 \/ (q = 2 /\ pads < 2) \/ (q = 3 /\ pads < 1)
       THEN [ok |-> FALSE, data |-> <<>>]
       ELSE [ok |-> TRUE, data |-> B64Groups(ds)]

Replace(cs, from, to) == [i \in 1..Len(cs) |-> IF cs[i] = from THEN to ELSE cs[i]]
RECURSIVE RStrip(_, _)
RStrip(cs, c) == IF cs # <<>> /\ cs[Len(cs)] = c THEN RStrip(SubSeq(cs, 1, Len(cs) - 1), c)
                 ELSE cs
RECURSIVE RestorePadding(_)
RestorePadding(cs) == IF Len(cs) % 4 # 0 THEN RestorePadding(Append(cs, "=")) ELSE cs


\* _base64_to_base64url
Base64ToBase64Url(data) ==
    RStrip(Replace(Replace(B64Encode(data), "+", "-"), "/", "_"), "=")

\* _base64url_to_bytes without its `while len(s) % 4` loop
Base64UrlToBytesUnpadded(text) ==
    B64Decode(Replace(Replace(text, "-", "+"), "_", "/"))

\* _base64url_to_bytes: [ok, data]
Base64UrlToBytes(text) ==
    B64Decode(RestorePadding(Replace(Replace(text, "-", "+"), "_", "/")))

\* encode_json_to_url_fragment: a str argument is taken as JSON text already
EncodeJsonToUrlFragment(x, time) ==
    LET json_str == IF x.t = "str" THEN x.s ELSE JsonDumps(x)
        compressed == GzipCompress(Utf8Encode(json_str), time)
    IN Base64ToBase64Url(compressed)

\* decode_url_fragment_to_json: [ok, v]; ok is FALSE where an exception leaves
DecodeFail == [ok |-> FALSE, v |-> JNull]
DecodeUrlFragmentToJson(text) ==
    LET raw == Base64UrlToBytes(text)
        unzipped == GzipDecompress(raw.data)
        decompressed == Utf8Decode(unzipped.data)
        loaded == JsonLoads(decompressed.s)
    IN IF raw.ok /\ unzipped.ok /\ decompressed.ok /\ loaded.ok
       THEN [ok |-> TRUE, v |-> loaded.v]
       ELSE DecodeFail

\* build_icon_kitchen_url
UrlPrefix == <<"h", "t", "t", "p", "s", ":", "/", "/", "i", "c", "o", "n", ".",
               "k", "i", "t", "c", "h", "e", "n", "/", "i", "/">>
BuildIconKitchenUrl(text) == UrlPrefix \o text

-----------------------------------------------------------------------------
(* cli.py: _deep_merge *)

\* the loop over override.items() from its i-th item on, result so far in acc
RECURSIVE MergeFrom(_, _, _)
MergeFrom(acc, items, i) ==
    IF i > Len(items) THEN acc
    ELSE LET key == items[i].k
             value == items[i].v
         IN IF Has(acc, key) /\ IsMapping(Get(acc, key)) /\ IsMapping(value)
            THEN MergeFrom(DictSet(acc, key, MergeFrom(Get(acc, key), value.items, 1)),
                           items, i + 1)
            ELSE MergeFrom(DictSet(acc, key, value), items, i + 1)

\* dict.update in place of the recursion: {**base, **override}
RECURSIVE UpdateFrom(_, _, _)
UpdateFrom(acc, items, i) ==
    IF i > Len(items) THEN acc
    ELSE UpdateFrom(DictSet(acc, items[i].k, items[i].v), items, i + 1)
ShallowMerge(b, o) == UpdateFrom(b, o.items, 1)

\* `result = {}` in place of `result = dict(base)`
MergeIntoEmpty(b, o) == MergeFrom(JObj(<<>>), o.items, 1)

DeepMerge(b, o) == MergeFrom(b, o.items, 1)

(* The inputs of the merger: objects three levels deep *)
MergeLeaves == {JNull, JArr(<<JNum(1), JNum(2)>>)} \cup {JNum(i) : i \in 1..MaxNum}
MergeLevel1 == {JObj(<<>>)} \cup {JObj(<<KV(<<"d">>, val)>>) : val \in MergeLeaves}
MergeLevel2 ==
    {JObj(<<>>)}
    \cup {JObj(<<KV(<<"c">>, val)>>) : val \in MergeLeaves \cup MergeLevel1}
MergeValues == MergeLeaves \cup MergeLevel1 \cup MergeLevel2
MergeObjects ==
    {JObj(<<>>)}
    \cup {JObj(<<KV(key, val)>>) : key \in {<<"a">>, <<"b">>}, val \in MergeValues}
    \cup {JObj(<<KV(<<"a">>, v1), KV(<<"b">>, v2)>>) :
             v1 \in MergeValues, v2 \in MergeValues}
\* the two worked examples of the merge
ExamplePrecedence ==
    <<JObj(<<KV(<<"a">>, JNum(1)),
             KV(<<"b">>, JObj(<<KV(<<"c">>, JNum(1)), KV(<<"d">>, JNum(2))>>))>>),
      JObj(<<KV(<<"b">>, JObj(<<KV(<<"c">>, JNum(9))>>)), KV(<<"e">>, JNum(5))>>)>>
ExampleTypeReplace ==
    <<JObj(<<KV(<<"a">>, JObj(<<KV(<<"x">>, JNum(1))>>))>>),
      JObj(<<KV(<<"a">>, JArr(<<JNum(1), JNum(2)>>))>>)>>
MergeInputs == (MergeObjects \X MergeObjects) \cup {ExamplePrecedence, ExampleTypeReplace}

MergeIdle == merge_pc = "idle" /\ base = JNull /\ override = JNull /\ result = JNull

MergeInit ==
    /\ merge_pc = "start" /\ result = JNull
    /\ \E p \in MergeInputs : base = p[1] /\ override = p[2]

Merge ==
    /\ merge_pc = "start"
    /\ result' = DeepMerge(base, override)
    /\ merge_pc' = "merged"
    /\ UNCHANGED <<base, override>>


(* The inputs of the codec *)
CodecChars == {"a", "1", "\"", "\\", "{", "}", NonAscii}
CodecStrings == SeqsUpTo(CodecChars, MaxStrLen)
CodecKeys == {<<"a">>, <<"b", "\"">>}
CodecSmall == {JNull, JBool(TRUE), JNum(12), JNum(-3), JStr(<<>>),
               JStr(<<"a", "\"">>), JStr(<<NonAscii, "\\">>)}
CodecScalars ==
    {JNull, JBool(TRUE), JBool(FALSE)}
    \cup {JNum(i) : i \in {0, 7, 12, -3, 255, 1000}}
    \cup {JStr(cs) : cs \in CodecStrings}
CodecArrays == {JArr(vs) : vs \in SeqsUpTo(CodecSmall, 2)}
CodecInner ==
    CodecSmall \cup {JArr(vs) : vs \in SeqsUpTo(CodecSmall, 1)}
    \cup {JObj(<<>>), JObj(<<KV(<<"a">>, JNum(7))>>)}
CodecObjects ==
    {JObj(<<>>)}
    \cup {JObj(<<KV(key, val)>>) : key \in CodecKeys, val \in CodecInner}
    \cup {JObj(<<KV(ks[1], v1), KV(ks[2], v2)>>) :
             ks \in {p \in CodecKeys \X CodecKeys : p[1] # p[2]},
             v1 \in CodecSmall, v2 \in CodecInner}
CodecInputs ==
    CodecScalars \cup CodecArrays \cup CodecObjects
    \cup {JArr(<<o>>) : o \in {JObj(<<KV(key, val)>>) : key \in CodecKeys, val \in CodecSmall}}
\* the clock read by gzip.compress (mtime=None), in seconds
CodecTimes == {0, 1793619200}

CodecIdle ==
    /\ codec_pc = "idle" /\ obj = JNull /\ mtime = 0
    /\ fragment = <<>> /\ decoded = DecodeFail

CodecInit ==
    /\ codec_pc = "start" /\ obj \in CodecInputs /\ mtime = 0
    /\ fragment = <<>> /\ decoded = DecodeFail

Encode ==
    /\ codec_pc = "start"
    /\ \E time \in CodecTimes :
          /\ mtime' = time
          /\ fragment' = EncodeJsonToUrlFragment(obj, time)
    /\ codec_pc' = "encoded"
    /\ UNCHANGED <<obj, decoded>>

Decode ==
    /\ codec_pc = "encoded"
    /\ decoded' = DecodeUrlFragmentToJson(fragment)
    /\ codec_pc' = "decoded"
    /\ UNCHANGED <<obj, mtime, fragment>>




-----------------------------------------------------------------------------
(* gitlab_uploader.py: compress_image_to_size *)

MAX_AVATAR_SIZE == 200 * 1024
step_quality == <<100, 95, 90, 85, 80, 70, 60, 50, 40, 30, 10>>
Floor == 128

\* round(d * 0.9): to the nearest pixel, halves up
ShrinkNearest(d) == (d * 9 + 5) \div 10

\* int(d * 0.9): the product is truncated
Shrink(d) == (d * 9) \div 10

\* the test of the resize loop with a floor of twice the height and width
AboveTwiceFloor(w, h) == w > 2 * Floor /\ h > 2 * Floor

\* the test of the resize loop on the dimensions
AboveFloor(w, h) == w > Floor /\ h > Floor

\* what one encoder call may leave in the buffer: any size, here one byte,
\* the budget exactly, and one byte more than the budget
EncodedSizes(budget) == {1, budget, budget + 1}

\* the image sizes and the budgets drawn as inputs
CompressDims == (126..MaxDim) \cup {512}
CompressBudgets == {1, MAX_AVATAR_SIZE}

CompressIdle ==
    /\ cmp_pc = "idle" /\ output_format = "PNG" /\ max_size = 0
    /\ img_size = <<0, 0>> /\ q_index = 0 /\ quality = 0 /\ size = 0
    /\ width = 0 /\ height = 0 /\ attempts = 0 /\ rounds = 0 /\ encoded = <<>>

\* after Image.open and the choice of the format by the extension; quality 0
\* stands for no quality argument, width and height are not assigned yet
CompressInit ==
    /\ cmp_pc = "ladder"
    /\ output_format \in {"PNG", "JPEG"}
    /\ max_size \in CompressBudgets
    /\ img_size \in CompressDims \X CompressDims
    /\ q_index = 0 /\ quality = 0 /\ size = 0
    /\ width = 0 /\ height = 0 /\ attempts = 0 /\ rounds = 0 /\ encoded = <<>>

\* one iteration of `for q in step_quality`: encode, break when it fits; the
\* else branch of the loop starts the resize fallback.  PNG takes no quality,
\* so every iteration encodes the same image with the same arguments and the
\* encoder, a function of its input, leaves the same size.
LadderEncode ==
    /\ cmp_pc = "ladder"
    /\ q_index < Len(step_quality)
    /\ q_index' = q_index + 1
    /\ quality' = IF output_format = "JPEG" THEN step_quality[q_index + 1] ELSE 0
    /\ \E n \in EncodedSizes(max_size) :
          /\ (output_format = "PNG" /\ q_index > 0) => n = size
          /\ size' = n
          /\ cmp_pc' = IF n <= max_size THEN "done"
                       ELSE IF q_index + 1 = Len(step_quality) THEN "resize"
                       ELSE "ladder"
          /\ width' = IF n > max_size /\ q_index + 1 = Len(step_quality)
                      THEN img_size[1] ELSE width
          /\ height' = IF n > max_size /\ q_index + 1 = Len(step_quality)
                       THEN img_size[2] ELSE height
    /\ attempts' = attempts + 1
    /\ encoded' = <<img_size[1], img_size[2]>>
    /\ UNCHANGED <<output_format, max_size, img_size, rounds>>

\* one round of the while loop: shrink, resize, encode, break when it fits
ResizeRound ==
    /\ cmp_pc = "resize"
    /\ size > max_size /\ AboveFloor(width, height)
    /\ width' = Shrink(width)
    /\ height' = Shrink(height)
    /\ \E n \in EncodedSizes(max_size) :
          /\ size' = n
          /\ cmp_pc' = IF n <= max_size THEN "done" ELSE "resize"
    /\ attempts' = attempts + 1
    /\ rounds' = rounds + 1
    /\ encoded' = <<Shrink(width), Shrink(height)>>
    /\ UNCHANGED <<output_format, max_size, img_size, q_index, quality>>

\* the while test fails: the current result is returned, oversized or not
ResizeStop ==
    /\ cmp_pc = "resize"
    /\ ~(size > max_size /\ AboveFloor(width, height))
    /\ cmp_pc' = "done"
    /\ UNCHANGED <<output_format, max_size, img_size, q_index, quality, size,
                   width, height, attempts, rounds, encoded>>


-----------------------------------------------------------------------------
(* gitlab_uploader.py: _find_project_id, _upload_single_avatar, _upload_avatars *)

\* An "id" field: an int, or anything else (a string, null, no field at all).
IntId(i) == [int |-> TRUE, val |-> i]
OtherId == [int |-> FALSE, val |-> 0]
\* An element of the search response: a JSON object with its "name" and
\* "id", or a value that is no object.
Project(nm, ident) == [isobj |-> TRUE, name |-> nm, id |-> ident]
NotAnObject == [isobj |-> FALSE, name |-> "", id |-> OtherId]

\* The return value of _find_project_id and where it was decided:
\* "pending", "http_error", "bad_payload", "no_match", "invalid_id", "skipped", "project"
Unresolved == [how |-> "pending", found |-> FALSE, id |-> 0]
ReturnNone(why) == [how |-> why, found |-> FALSE, id |-> 0]
ReturnId(why, i) == [how |-> why, found |-> TRUE, id |-> i]
\* lines 125-132 and 162-170: the id of the chosen project, when it is an int
ReturnProject(proj) ==
    IF proj.id.int THEN ReturnId("project", proj.id.val) ELSE ReturnNone("invalid_id")

\* A response to the selection prompt, after strip(): empty; text that
\* str.isdigit() rejects; decimal digits with their value; digits that are
\* not decimal (a superscript two), which isdigit() accepts and int() rejects.
NoChoice == [kind |-> "none", n |-> 0]
Choices ==
    {[kind |-> "empty", n |-> 0], [kind |-> "text", n |-> 0],
     [kind |-> "superscript", n |-> 0]}
    \cup {[kind |-> "index", n |-> i] : i \in 0..MaxProjects}

UploadNames == {"p", "q"}
SearchEntries ==
    {Project(nm, ident) : nm \in UploadNames, ident \in {IntId(1), IntId(2), OtherId}}
    \cup {NotAnObject}
SearchResults == SeqsUpTo(SearchEntries, MaxProjects)
\* the outcomes of the GET: an exception that is no ClientResponseError (a
\* timeout, a dropped connection), an error status, a body that is no JSON,
\* JSON that is no list, a list
SearchOutcomes == {"transport_error", "http_error", "invalid_json", "not_list", "list"}
PutStatuses == {199, 200, 299, 300, 404}

project_name == avatars[up_i]

\* every project of the response, as the search (a substring match) returns them
AllMatches(data, nm) == data

ExactMatches(data, nm) == SelectSeq(data, LAMBDA proj : proj.name = nm)

UploadIdle ==
    /\ up_pc = "idle" /\ avatars = <<>> /\ up_i = 0 /\ exact_matches = <<>>
    /\ prompts = 0 /\ choice = NoChoice /\ resolved = Unresolved
    /\ status = <<>> /\ reported = {}

\* at the call of _upload_avatars: the mapping holds distinct names, in order
UploadInit ==
    /\ up_pc = "begin"
    /\ avatars \in {<<>>, <<"p">>, <<"q">>, <<"p", "q">>, <<"q", "p">>}
    /\ up_i = 0 /\ exact_matches = <<>>
    /\ prompts = 0 /\ choice = NoChoice /\ resolved = Unresolved
    /\ status = [i \in 1..Len(avatars) |-> "pending"] /\ reported = {}

\* _upload_single_avatar returns for the current name with outcome st; the
\* for loop takes the next name or ends and the session is closed
NextAvatar(st, printed) ==
    /\ status' = [status EXCEPT ![up_i] = st]
    /\ reported' = IF printed THEN reported \cup {up_i} ELSE reported
    /\ up_i' = up_i + 1
    /\ up_pc' = IF up_i + 1 > Len(avatars) THEN "done" ELSE "search"
    /\ exact_matches' = <<>> /\ prompts' = 0
    /\ choice' = NoChoice /\ resolved' = Unresolved

\* an exception leaves _upload_single_avatar: nothing in _upload_avatars or
\* upload_avatars_sync catches it, the loop is left
Propagate ==
    /\ status' = [status EXCEPT ![up_i] = "exception"]
    /\ up_pc' = "crashed"
    /\ UNCHANGED <<up_i, exact_matches, prompts, choice, resolved, reported>>

\* _upload_avatars up to the for loop
UploadBegin ==
    /\ up_pc = "begin"
    /\ IF avatars = <<>>
       THEN up_pc' = "done" /\ up_i' = up_i
       ELSE up_pc' = "search" /\ up_i' = 1
    /\ UNCHANGED <<avatars, exact_matches, prompts, choice, resolved, status, reported>>

\* _find_project_id up to the prompt: the GET, the payload checks, the filter
Search ==
    /\ up_pc = "search"
    /\ \E outcome \in SearchOutcomes, data \in SearchResults :
          /\ outcome # "list" => data = <<>>
          /\ CASE outcome = "transport_error" -> Propagate
               [] outcome = "list" /\ \E j \in 1..Len(data) : ~data[j].isobj -> Propagate
               [] outcome = "http_error" ->
                     /\ resolved' = ReturnNone("http_error")
                     /\ up_pc' = "resolved"
                     /\ reported' = reported \cup {up_i}
                     /\ UNCHANGED <<up_i, exact_matches, prompts, choice, status>>
               [] outcome \in {"invalid_json", "not_list"} ->
                     /\ resolved' = ReturnNone("bad_payload")
                     /\ up_pc' = "resolved"
                     /\ reported' = reported \cup {up_i}
                     /\ UNCHANGED <<up_i, exact_matches, prompts, choice, status>>
               [] OTHER ->
                     LET found == ExactMatches(data, project_name)
                     IN /\ exact_matches' = found
                        /\ IF found = <<>>
                           THEN /\ resolved' = ReturnNone("no_match")
                                /\ up_pc' = "resolved"
                                /\ reported' = reported \cup {up_i}
                           ELSE IF Len(found) = 1
                           THEN /\ resolved' = ReturnProject(found[1])
                                /\ up_pc' = "resolved"
                                /\ reported' = IF found[1].id.int THEN reported
                                               ELSE reported \cup {up_i}
                           ELSE /\ resolved' = resolved
                                /\ up_pc' = "prompt"
                                /\ reported' = reported
                        /\ UNCHANGED <<up_i, prompts, choice, status>>
    /\ UNCHANGED avatars

\* one turn of the `while True` loop: a prompt and its response
Prompt ==
    /\ up_pc = "prompt"
    /\ \E c \in Choices :
          /\ choice' = c
          /\ prompts' = prompts + 1
          /\ CASE c.kind = "empty" ->
                     /\ resolved' = ReturnNone("skipped")
                     /\ up_pc' = "resolved"
                     /\ reported' = reported \cup {up_i}
                     /\ UNCHANGED status
               [] c.kind = "superscript" ->
                     /\ status' = [status EXCEPT ![up_i] = "exception"]
                     /\ up_pc' = "crashed"
                     /\ UNCHANGED <<resolved, reported>>
               [] c.kind = "text" \/ (c.kind = "index" /\ ~(c.n < Len(exact_matches))) ->
                     /\ prompts < MaxPrompts
                     /\ up_pc' = "prompt"
                     /\ UNCHANGED <<resolved, reported, status>>
               [] OTHER ->
                     /\ resolved' = ReturnProject(exact_matches[c.n + 1])
                     /\ up_pc' = "resolved"
                     /\ reported' = IF exact_matches[c.n + 1].id.int THEN reported
                                    ELSE reported \cup {up_i}
                     /\ UNCHANGED status
    /\ UNCHANGED <<avatars, up_i, exact_matches>>

\* _upload_single_avatar after _find_project_id: no project, no file, or on
\* to the compression
AfterFind ==
    /\ up_pc = "resolved"
    /\ IF ~resolved.found
       THEN NextAvatar(resolved.how, FALSE)
       ELSE \E is_file \in BOOLEAN :
               IF is_file
               THEN /\ up_pc' = "compress"
                    /\ UNCHANGED <<up_i, exact_matches, prompts, choice, resolved,
                                   status, reported>>
               ELSE NextAvatar("missing_file", TRUE)
    /\ UNCHANGED avatars

\* compress_image_to_size under try/except Exception
Compress ==
    /\ up_pc = "compress"
    /\ \E raised \in BOOLEAN :
          IF raised
          THEN NextAvatar("compress_failed", TRUE)
          ELSE /\ up_pc' = "put"
               /\ UNCHANGED <<up_i, exact_matches, prompts, choice, resolved,
                              status, reported>>
    /\ UNCHANGED avatars

\* the PUT: an exception, or a response whose status is printed either way
Put ==
    /\ up_pc = "put"
    /\ \/ Propagate
       \/ \E code \in PutStatuses :
             IF 200 <= code /\ code < 300
             THEN NextAvatar("uploaded", FALSE)
             ELSE NextAvatar("put_failed", TRUE)
    /\ UNCHANGED avatars


-----------------------------------------------------------------------------
(* cli.py: main and its helpers; downloader.py: download_many_and_extract *)

NameKey == <<"n", "a", "m", "e">>
TemplateKey == <<"t", "e", "m", "p", "l", "a", "t", "e">>
ItemsKey == <<"i", "t", "e", "m", "s">>

\* dict.get(key): None when the key is absent
GetOrNone(d, key) == IF Has(d, key) THEN Get(d, key) ELSE JNull

\* str.strip()
RECURSIVE LStrip(_)
LStrip(cs) == IF cs # <<>> /\ cs[1] = " " THEN LStrip(Tail(cs)) ELSE cs
Strip(cs) == RStrip(LStrip(cs), " ")

\* {key: value for key, value in item.items() if key != "name"}
OverridesOf(item) == JObj(SelectSeq(item.items, LAMBDA kv : kv.k # NameKey))

\* SystemExit(message): status 1; what is 0 for a message about no item
Exit(message, what) == [code |-> 1, msg |-> message, idx |-> what]
Running == [code |-> 0, msg |-> "running", idx |-> 0]
Finished == [code |-> 0, msg |-> "finished", idx |-> 0]
\* an exception nothing catches: a traceback and status 1
Traceback == [code |-> 1, msg |-> "traceback", idx |-> 0]

\* the checks of the flags without the one of lines 125-128
FlagErrorNoDownloadCheck(a, has_token) ==
    IF ~a.input THEN "no input"
    ELSE IF a.gitlab_uploader /\ a.sub_extract = "" THEN "uploader needs sub-extract"
    ELSE IF a.gitlab_uploader /\ ~has_token THEN "uploader needs token"
    ELSE ""

\* lines 117-134: the checks of the flags before the input is loaded; the
\* message of the SystemExit, "" when all pass
FlagError(a, has_token) ==
    IF ~a.input THEN "no input"
    ELSE IF a.gitlab_uploader /\ a.sub_extract = "" THEN "uploader needs sub-extract"
    ELSE IF a.gitlab_uploader /\ ~a.download THEN "uploader needs download"
    ELSE IF a.gitlab_uploader /\ ~has_token THEN "uploader needs token"
    ELSE ""

\* lines 141-144: the checks of the document; "" when both pass
DocumentError(d) ==
    IF ~IsMapping(GetOrNone(d, TemplateKey)) THEN "template"
    ELSE IF GetOrNone(d, ItemsKey).t # "arr" \/ GetOrNone(d, ItemsKey).items = <<>>
    THEN "items"
    ELSE ""

\* the checks of one item without the one of lines 169-170
ItemErrorNoOverridesCheck(raw_item) ==
    IF ~IsMapping(raw_item) THEN "not an object"
    ELSE IF GetOrNone(raw_item, NameKey).t # "str"
            \/ Strip(GetOrNone(raw_item, NameKey).s) = <<>>
    THEN "no name"
    ELSE ""

\* lines 152-170: the checks of one item; "" when all pass
ItemError(raw_item) ==
    IF ~IsMapping(raw_item) THEN "not an object"
    ELSE IF GetOrNone(raw_item, NameKey).t # "str"
            \/ Strip(GetOrNone(raw_item, NameKey).s) = <<>>
    THEN "no name"
    ELSE IF OverridesOf(raw_item).items = <<>> THEN "no overrides"
    ELSE ""

(* The inputs of a run *)
\* sub_extract is "" for an absent or empty --sub-extract
MainArgs ==
    [extract_json : BOOLEAN, input : BOOLEAN, download : BOOLEAN,
     sub_extract : {"", "icon.png"}, gitlab_uploader : BOOLEAN, token : BOOLEAN]
MainTemplate ==
    JObj(<<KV(<<"a">>, JNum(1)), KV(<<"b">>, JObj(<<KV(<<"c">>, JNum(1))>>))>>)
NamedItem(nm, over) == JObj(<<KV(NameKey, nm)>> \o over)
OverrideX == <<KV(<<"x">>, JNum(2))>>
OverrideB == <<KV(<<"b">>, JObj(<<KV(<<"d">>, JStr(<<"y">>))>>))>>
MainItems ==
    {JNum(1), JObj(OverrideX),
     NamedItem(JNum(5), OverrideX), NamedItem(JStr(<<>>), OverrideX),
     NamedItem(JStr(<<" ">>), OverrideX), NamedItem(JStr(<<"p">>), <<>>),
     NamedItem(JStr(<<"p">>), OverrideX), NamedItem(JStr(<<" ", "p">>), OverrideB),
     NamedItem(JStr(<<"q">>), OverrideB)}
MainItemLists == UNION { [1..k -> MainItems] : k \in 1..MaxItems }
MainDocuments ==
    {JObj(t \o i) :
        t \in {<<>>, <<KV(TemplateKey, JNum(1))>>, <<KV(TemplateKey, MainTemplate)>>},
        i \in {<<>>, <<KV(ItemsKey, JNum(1))>>, <<KV(ItemsKey, JArr(<<>>))>>}
              \cup {<<KV(ItemsKey, JArr(l))>> : l \in MainItemLists}}
MainNames == {<<"p">>, <<"q">>}
\* one URL of the download: the archive holds the collected file or not, or
\* the step fails (navigation, no download button, bad ZIP)
DownloadOutcomes == {"with_file", "without_file", "navigation_failed",
                     "no_download_button", "bad_zip"}

MainIdle ==
    /\ main_pc = "idle"
    /\ args = [extract_json |-> FALSE, input |-> FALSE, download |-> FALSE,
               sub_extract |-> "", gitlab_uploader |-> FALSE, token |-> FALSE]
    /\ doc = JNull /\ idx = 0 /\ item_names = <<>> /\ item_overrides = <<>>
    /\ urls = <<>> /\ exit = Running /\ ext_fs = {} /\ sub_fs = {}
    /\ extracted_dirs = <<>> /\ archives = <<>> /\ missing = {} /\ collected = {}
    /\ handed = <<>> /\ reached = {}

\* after parse_args; ext_fs and sub_fs are the names with a file left by an
\* earlier run under extracted/<name>/ and in sub_extracted/
MainInit ==
    /\ main_pc = "flags"
    /\ args \in MainArgs
    /\ doc = JNull /\ idx = 0 /\ item_names = <<>> /\ item_overrides = <<>>
    /\ urls = <<>> /\ exit = Running
    /\ ext_fs \in SUBSET MainNames /\ sub_fs \in SUBSET MainNames
    /\ extracted_dirs = <<>> /\ archives = <<>> /\ missing = {} /\ collected = {}
    /\ handed = <<>> /\ reached = {}

Stop(e) == main_pc' = "exit" /\ exit' = e

\* lines 113-134: --extract-json prints the decoded configuration (or fails)
\* and returns; otherwise the flags are checked
CheckFlags ==
    /\ main_pc = "flags"
    /\ IF args.extract_json
       THEN \E ok \in BOOLEAN :
               Stop(IF ok THEN Finished ELSE Exit("extract-json failed", 0))
       ELSE IF FlagError(args, args.token) # ""
       THEN Stop(Exit(FlagError(args, args.token), 0))
       ELSE main_pc' = "load" /\ exit' = exit
    /\ UNCHANGED <<args, doc, idx, item_names, item_overrides, urls, ext_fs, sub_fs,
                   extracted_dirs, archives, missing, collected, handed, reached>>

\* lines 136-146: _load_json (an unreadable file or invalid JSON raises) and
\* the checks of the document
LoadDocument ==
    /\ main_pc = "load"
    /\ reached' = reached \cup {"load"}
    /\ \/ /\ Stop(Traceback)
          /\ doc' = doc
       \/ \E d \in MainDocuments :
             /\ doc' = d
             /\ IF DocumentError(d) # ""
                THEN Stop(Exit(DocumentError(d), 0))
                ELSE main_pc' = "validate" /\ exit' = exit
    /\ UNCHANGED <<args, idx, item_names, item_overrides, urls, ext_fs, sub_fs,
                   extracted_dirs, archives, missing, collected, handed>>

items_raw == GetOrNone(doc, ItemsKey).items
template == GetOrNone(doc, TemplateKey)

\* one iteration of the loop of lines 151-173
ValidateItem ==
    /\ main_pc = "validate"
    /\ LET raw_item == items_raw[idx + 1].v
       IN IF ItemError(raw_item) # ""
          THEN /\ Stop(Exit(ItemError(raw_item), idx))
               /\ UNCHANGED <<idx, item_names, item_overrides>>
          ELSE /\ item_names' = Append(item_names, Strip(Get(raw_item, NameKey).s))
               /\ item_overrides' = Append(item_overrides, OverridesOf(raw_item))
               /\ idx' = idx + 1
               /\ main_pc' = IF idx + 1 = Len(items_raw) THEN "urls" ELSE "validate"
               /\ exit' = exit
    /\ UNCHANGED <<args, doc, urls, ext_fs, sub_fs, extracted_dirs, archives,
                   missing, collected, handed, reached>>

\* one iteration of the loop of lines 179-185; after the last URL the run
\* ends unless --download was given
BuildUrl ==
    /\ main_pc = "urls"
    /\ \E time \in CodecTimes :
          urls' = Append(urls,
                    BuildIconKitchenUrl(
                      EncodeJsonToUrlFragment(
                        DeepMerge(template, item_overrides[Len(urls) + 1]), time)))
    /\ reached' = reached \cup {"url"}
    /\ IF Len(urls) + 1 < Len(item_overrides)
       THEN main_pc' = "urls" /\ exit' = exit
       ELSE IF args.download THEN main_pc' = "cleanup" /\ exit' = exit
       ELSE Stop(Finished)
    /\ UNCHANGED <<args, doc, idx, item_names, item_overrides, ext_fs, sub_fs,
                   extracted_dirs, archives, missing, collected, handed>>

\* _maybe_cleanup_previous_outputs: no prompt when nothing is left from an
\* earlier run; an answer other than empty, y, yes, n, no repeats the prompt
CleanupPrevious ==
    /\ main_pc = "cleanup"
    /\ reached' = reached \cup {"cleanup"}
    /\ LET exists_extract == ext_fs # {}
           exists_sub == args.sub_extract # "" /\ sub_fs # {}
       IN IF ~exists_extract /\ ~exists_sub
          THEN main_pc' = "download" /\ UNCHANGED <<ext_fs, sub_fs>>
          ELSE \E answer \in {"", "y", "n", "other"} :
                  CASE answer = "other" ->
                          main_pc' = "cleanup" /\ UNCHANGED <<ext_fs, sub_fs>>
                    [] answer = "y" ->
                          /\ main_pc' = "download"
                          /\ ext_fs' = {}
                          /\ sub_fs' = IF exists_sub THEN {} ELSE sub_fs
                    [] OTHER -> main_pc' = "download" /\ UNCHANGED <<ext_fs, sub_fs>>
    /\ UNCHANGED <<args, doc, idx, item_names, item_overrides, urls, exit,
                   extracted_dirs, archives, missing, collected, handed>>

\* download_many_and_extract, one iteration of the loop of lines 42-64:
\* nothing catches what goto, click, save_as or ZipFile raise, neither here
\* nor in main.  extractall adds to what the directory already holds.
DownloadOne ==
    /\ main_pc = "download"
    /\ reached' = reached \cup {"download"}
    /\ \E outcome \in DownloadOutcomes :
          /\ archives' = Append(archives, outcome)
          /\ IF outcome \in {"with_file", "without_file"}
             THEN /\ extracted_dirs' = Append(extracted_dirs,
                                              item_names[Len(extracted_dirs) + 1])
                  /\ ext_fs' = IF outcome = "with_file"
                               THEN ext_fs \cup {item_names[Len(extracted_dirs) + 1]}
                               ELSE ext_fs
                  /\ IF Len(extracted_dirs) + 1 < Len(urls)
                     THEN main_pc' = "download" /\ exit' = exit
                     ELSE IF args.sub_extract # ""
                     THEN main_pc' = "collect" /\ exit' = exit
                     ELSE Stop(Finished)
             ELSE /\ Stop(Traceback)
                  /\ UNCHANGED <<extracted_dirs, ext_fs>>
    /\ UNCHANGED <<args, doc, idx, item_names, item_overrides, urls, sub_fs,
                   missing, collected, handed>>

\* the files _perform_sub_extract copies and the items it reports missing
RECURSIVE CollectFrom(_, _, _, _)
CollectFrom(i, fs, copied, absent) ==
    IF i > Len(extracted_dirs) THEN [fs |-> fs, copied |-> copied, absent |-> absent]
    ELSE IF extracted_dirs[i] \in ext_fs
    THEN CollectFrom(i + 1, fs \cup {item_names[i]}, copied \cup {i}, absent)
    ELSE CollectFrom(i + 1, fs, copied, absent \cup {i})

\* _perform_sub_extract
SubExtract ==
    /\ main_pc = "collect"
    /\ reached' = reached \cup {"collect"}
    /\ LET r == CollectFrom(1, sub_fs, {}, {})
       IN /\ sub_fs' = r.fs
          /\ collected' = r.copied
          /\ missing' = r.absent
    /\ IF args.gitlab_uploader
       THEN main_pc' = "upload" /\ exit' = exit
       ELSE Stop(Finished)
    /\ UNCHANGED <<args, doc, idx, item_names, item_overrides, urls, ext_fs,
                   extracted_dirs, archives, handed>>

\* the avatars mapping of _perform_gitlab_upload: the names with a file in
\* sub_extracted/, each once, in the order of their first item
RECURSIVE AvatarsFrom(_, _)
AvatarsFrom(i, acc) ==
    IF i > Len(item_names) THEN acc
    ELSE IF item_names[i] \in sub_fs /\ \A j \in 1..Len(acc) : acc[j] # item_names[i]
    THEN AvatarsFrom(i + 1, Append(acc, item_names[i]))
    ELSE AvatarsFrom(i + 1, acc)

\* _perform_gitlab_upload: the mapping is handed to upload_avatars_sync
GitlabUpload ==
    /\ main_pc = "upload"
    /\ reached' = reached \cup {"upload"}
    /\ handed' = AvatarsFrom(1, <<>>)
    /\ Stop(Finished)
    /\ UNCHANGED <<args, doc, idx, item_names, item_overrides, urls, ext_fs, sub_fs,
                   extracted_dirs, archives, missing, collected>>


-----------------------------------------------------------------------------
(* Specifications: each runs one component and leaves the others idle *)

CodecNext ==
    \/ Encode /\ UNCHANGED <<mergeVars, compressVars, uploadVars, mainVars>>
    \/ Decode /\ UNCHANGED <<mergeVars, compressVars, uploadVars, mainVars>>

MergeNext == Merge /\ UNCHANGED <<codecVars, compressVars, uploadVars, mainVars>>

CompressNext ==
    \/ LadderEncode /\ UNCHANGED <<codecVars, mergeVars, uploadVars, mainVars>>
    \/ ResizeRound /\ UNCHANGED <<codecVars, mergeVars, uploadVars, mainVars>>
    \/ ResizeStop /\ UNCHANGED <<codecVars, mergeVars, uploadVars, mainVars>>

UploadNext ==
    \/ UploadBegin /\ UNCHANGED <<codecVars, mergeVars, compressVars, mainVars>>
    \/ Search /\ UNCHANGED <<codecVars, mergeVars, compressVars, mainVars>>
    \/ Prompt /\ UNCHANGED <<codecVars, mergeVars, compressVars, mainVars>>
    \/ AfterFind /\ UNCHANGED <<codecVars, mergeVars, compressVars, mainVars>>
    \/ Compress /\ UNCHANGED <<codecVars, mergeVars, compressVars, mainVars>>
    \/ Put /\ UNCHANGED <<codecVars, mergeVars, compressVars, mainVars>>

MainNext ==
    \/ CheckFlags /\ UNCHANGED <<codecVars, mergeVars, compressVars, uploadVars>>
    \/ LoadDocument /\ UNCHANGED <<codecVars, mergeVars, compressVars, uploadVars>>
    \/ ValidateItem /\ UNCHANGED <<codecVars, mergeVars, compressVars, uploadVars>>
    \/ BuildUrl /\ UNCHANGED <<codecVars, mergeVars, compressVars, uploadVars>>
    \/ CleanupPrevious /\ UNCHANGED <<codecVars, mergeVars, compressVars, uploadVars>>
    \/ DownloadOne /\ UNCHANGED <<codecVars, mergeVars, compressVars, uploadVars>>
    \/ SubExtract /\ UNCHANGED <<codecVars, mergeVars, compressVars, uploadVars>>
    \/ GitlabUpload /\ UNCHANGED <<codecVars, mergeVars, compressVars, uploadVars>>

CodecStart == CodecInit /\ MergeIdle /\ CompressIdle /\ UploadIdle /\ MainIdle
MergeStart == MergeInit /\ CodecIdle /\ CompressIdle /\ UploadIdle /\ MainIdle
CompressStart == CompressInit /\ CodecIdle /\ MergeIdle /\ UploadIdle /\ MainIdle
UploadStart == UploadInit /\ CodecIdle /\ MergeIdle /\ CompressIdle /\ MainIdle
MainStart == MainInit /\ CodecIdle /\ MergeIdle /\ CompressIdle /\ UploadIdle

SpecCodec == CodecStart /\ [][CodecNext]_vars
SpecMerge == MergeStart /\ [][MergeNext]_vars
SpecCompress == CompressStart /\ [][CompressNext]_vars
SpecUpload == UploadStart /\ [][UploadNext]_vars
SpecMain == MainStart /\ [][MainNext]_vars

\* compress_image_to_size is straight-line code: it runs on until it returns
SpecCompressFair == CompressStart /\ [][CompressNext]_vars /\ WF_vars(CompressNext)


-----------------------------------------------------------------------------
(* fragment codec *)

\* C1 as stated: whatever JSON value was encoded, strings included, decoding
\* the fragment succeeds and returns a value equal to it.
C1_RoundTripEveryValue ==
    codec_pc = "decoded" => decoded.ok /\ JsonEq(decoded.v, obj)

\* C1, amended: a value that is not a top-level string (an object, an array,
\* a number, a boolean, null, with strings nested at will) decodes to itself,
\* in the same key order; a top-level string is encoded as the JSON text it
\* holds, so decoding returns what json.loads makes of that text, and fails
\* where the text is not JSON.
C1_RoundTripExceptTopLevelStrings ==
    codec_pc = "decoded" =>
        IF obj.t # "str"
        THEN decoded.ok /\ JsonEq(decoded.v, obj) /\ decoded.v = obj
        ELSE /\ decoded.ok = JsonLoads(obj.s).ok
             /\ decoded.ok => decoded.v = JsonLoads(obj.s).v

\* C1 witness: an object of two members, one of them a nested array or
\* object, encoded at a non-zero clock and decoded
C1_Witness ==
    /\ codec_pc = "decoded" /\ decoded.ok /\ mtime # 0
    /\ obj.t = "obj" /\ Len(obj.items) = 2
    /\ obj.items[2].v.t \in {"arr", "obj"} /\ obj.items[2].v.items # <<>>

-----------------------------------------------------------------------------
(* configuration merger *)

\* the reference merge, as a relation between the result and the two inputs
RECURSIVE IsReferenceMerge(_, _, _)
IsReferenceMerge(r, b, o) ==
    /\ IsMapping(r)
    /\ Keys(r) = Keys(b) \cup Keys(o)
    /\ Len(r.items) = Cardinality(Keys(r))
    /\ \A key \in Keys(r) :
          IF key \notin Keys(o) THEN JsonEq(Get(r, key), Get(b, key))
          ELSE IF key \in Keys(b) /\ Get(b, key).t = "obj" /\ Get(o, key).t = "obj"
          THEN IsReferenceMerge(Get(r, key), Get(b, key), Get(o, key))
          ELSE JsonEq(Get(r, key), Get(o, key))

PrecedenceResult ==
    JObj(<<KV(<<"a">>, JNum(1)),
           KV(<<"b">>, JObj(<<KV(<<"c">>, JNum(9)), KV(<<"d">>, JNum(2))>>)),
           KV(<<"e">>, JNum(5))>>)
TypeReplaceResult == JObj(<<KV(<<"a">>, JArr(<<JNum(1), JNum(2)>>))>>)

\* C6: the result of _deep_merge is the reference merge of base and override:
\* the keys of both; base's value for a key of base alone; for a key of
\* override the recursive merge when both values are objects and override's
\* value otherwise.  The two worked examples give the stated results.
C6_ReferenceMerge ==
    merge_pc = "merged" =>
        /\ IsReferenceMerge(result, base, override)
        /\ <<base, override>> = ExamplePrecedence => JsonEq(result, PrecedenceResult)
        /\ <<base, override>> = ExampleTypeReplace => JsonEq(result, TypeReplaceResult)

\* C6 witness: a merge that recursed into a key whose values are objects on
\* both sides and added a key of override alone (the precedence example)
C6_Witness ==
    /\ merge_pc = "merged" /\ <<base, override>> = ExamplePrecedence
    /\ JsonEq(result, PrecedenceResult)

\* C7: merging an object with the empty object, or with itself, gives the
\* object back.
C7_MergeIdempotence ==
    merge_pc = "merged" =>
        /\ override = JObj(<<>>) => JsonEq(result, base)
        /\ override = base => JsonEq(result, base)

\* C7 witness: an object nested three levels deep merged with itself
C7_Witness ==
    /\ merge_pc = "merged" /\ override = base /\ JsonEq(result, base)
    /\ \E key \in Keys(base) :
          /\ Get(base, key).t = "obj"
          /\ \E k2 \in Keys(Get(base, key)) :
                /\ Get(Get(base, key), k2).t = "obj"
                /\ Get(Get(base, key), k2).items # <<>>


-----------------------------------------------------------------------------
(* batch orchestrator *)

\* an entry of the items array that is not an object, has no string name
\* that is non-empty once stripped, or has no key besides name; and the
\* message of the error for it
InvalidEntry(v) ==
    \/ v.t # "obj"
    \/ ~Has(v, NameKey)
    \/ Get(v, NameKey).t # "str"
    \/ Strip(Get(v, NameKey).s) = <<>>
    \/ Keys(v) \ {NameKey} = {}
ErrorFor(v) ==
    IF v.t # "obj" THEN "not an object"
    ELSE IF Keys(v) \ {NameKey} = {} /\ Has(v, NameKey)
            /\ Get(v, NameKey).t = "str" /\ Strip(Get(v, NameKey).s) # <<>>
    THEN "no overrides"
    ELSE "no name"
InvalidItems == { i \in 1..Len(items_raw) : InvalidEntry(items_raw[i].v) }
FirstInvalid == CHOOSE i \in InvalidItems : \A j \in InvalidItems : i <= j
\* the run got past the checks of the document and one of its items is invalid
ValidationCase ==
    /\ main_pc \notin {"flags", "load"} /\ "load" \in reached
    /\ doc # JNull
    /\ IsMapping(GetOrNone(doc, TemplateKey))
    /\ GetOrNone(doc, ItemsKey).t = "arr"
    /\ InvalidItems # {}

\* C2: with an invalid entry in the items array (not an object, no non-empty
\* string name, nothing besides name), no URL is ever built, not even for the
\* valid items before it, no download, collection or upload step starts, and
\* the run ends with an error naming the index of the first such entry.
C2_ValidationUpFront ==
    ValidationCase =>
        /\ main_pc \in {"validate", "exit"}
        /\ urls = <<>>
        /\ reached = {"load"}
        /\ extracted_dirs = <<>> /\ archives = <<>> /\ handed = <<>>
        /\ main_pc = "exit" =>
              /\ exit.code = 1
              /\ exit.idx = FirstInvalid - 1
              /\ exit.msg = ErrorFor(items_raw[FirstInvalid].v)
              /\ Len(item_names) = exit.idx

\* C2 witness: the second item has a name and nothing else; the run ended
\* with the error for index 1 after the first item passed
C2_Witness ==
    /\ ValidationCase /\ main_pc = "exit"
    /\ exit.idx = 1 /\ exit.msg = "no overrides" /\ Len(item_names) = 1

\* the run takes an input document and asks for the upload without both of
\* download and collection
UploadWithoutBoth ==
    /\ args.input /\ ~args.extract_json /\ args.gitlab_uploader
    /\ ~(args.download /\ args.sub_extract # "")

\* C3: a run that asks for the upload without both download and collection
\* never loads the input, builds no URL, starts no download and writes no
\* file, and ends with a non-zero status; the upload step is reached only in
\* runs that asked for download and collection.
C3_UploadNeedsDownloadAndCollection ==
    /\ UploadWithoutBoth =>
          /\ main_pc \in {"flags", "exit"}
          /\ reached = {} /\ doc = JNull /\ urls = <<>>
          /\ extracted_dirs = <<>> /\ archives = <<>> /\ handed = <<>>
          /\ main_pc = "exit" => exit.code # 0
    /\ ("upload" \in reached \/ main_pc = "upload") =>
          args.download /\ args.sub_extract # ""

\* C3 witness: upload and collection asked for without download, with the
\* token set: the run was rejected
C3_Witness ==
    /\ main_pc = "exit" /\ exit.code = 1
    /\ args.input /\ ~args.extract_json /\ args.gitlab_uploader /\ args.token
    /\ args.sub_extract # "" /\ ~args.download

\* C5 as stated: a failure of one URL's download or extraction is caught, and
\* every URL of the list is still downloaded: a run that started the download
\* ends having tried each URL, and not on an uncaught exception.
C5_DownloadFailureIsCaught ==
    (main_pc = "exit" /\ "download" \in reached) =>
        /\ Len(archives) = Len(urls)
        /\ exit # Traceback

-----------------------------------------------------------------------------
(* remote upload client *)

UploadFailures == {"http_error", "bad_payload", "no_match", "invalid_id", "skipped",
                   "missing_file", "compress_failed", "put_failed", "exception"}

\* C4 as stated: whatever fails for one name (the search, its payload, no
\* match, a skipped selection, the compression, the PUT, a timeout or network
\* error of either request), the failure is reported, and every name of the
\* mapping is processed: the call ends with no name left out.
C4_FailuresDoNotAbort ==
    up_pc \in {"done", "crashed"} =>
        /\ up_pc = "done"
        /\ \A i \in 1..Len(avatars) :
              /\ status[i] # "pending"
              /\ status[i] \in UploadFailures => i \in reported

\* _find_project_id has returned after a successful search response
Resolved ==
    up_pc = "resolved" /\ resolved.how \in {"no_match", "invalid_id", "skipped", "project"}
\* the last response was no decimal number, or a number past the last match
Rejected ==
    choice.kind = "text" \/ (choice.kind = "index" /\ choice.n >= Len(exact_matches))

-----------------------------------------------------------------------------
(* image compressor *)

MinOf(a, b) == IF a < b THEN a ELSE b
RoundBound ==
    IF MinOf(img_size[1], img_size[2]) > Floor
    THEN MinOf(img_size[1], img_size[2]) - Floor ELSE 0

\* C9 as stated: every resize round takes width and height to 0.9 of their
\* value rounded to the nearest pixel, strictly smaller than before.
C9_RoundsToNearest ==
    [][rounds' # rounds =>
          /\ width' < width /\ height' < height
          /\ 10 * width' - 9 * width \in -5..5
          /\ 10 * height' - 9 * height \in -5..5]_vars

\* C9, amended: every resize round takes width and height to 0.9 of their
\* value rounded down (truncated), strictly smaller than before; the rounds
\* number at most the smaller starting dimension less 128, and the call
\* returns.
C9_TruncatesAndTerminates ==
    /\ [][rounds' # rounds =>
             /\ rounds' = rounds + 1
             /\ width' < width /\ height' < height
             /\ 10 * width' <= 9 * width /\ 9 * width < 10 * width' + 10
             /\ 10 * height' <= 9 * height /\ 9 * height < 10 * height' + 10]_vars
    /\ [](rounds <= RoundBound)
    /\ <>(cmp_pc = "done")

\* C9 witness: a 134 by 512 image after its one round, returned at 120 by
\* 460: the nearest pixel to 120.6 is 121
C9_Witness ==
    /\ cmp_pc = "done" /\ img_size = <<134, 512>> /\ rounds = 1
    /\ width = 120 /\ height = 460


-----------------------------------------------------------------------------
(* The quality ladder *)

\* the encodes made before the resize fallback
InLadder == rounds = 0

\* a JPEG target walks the levels in their order, one encode per level, goes
\* on only past a level that does not fit and enters the fallback only after
\* the last level
JpegLadder ==
    output_format = "JPEG" =>
        /\ step_quality = <<100, 95, 90, 85, 80, 70, 60, 50, 40, 30, 10>>
        /\ InLadder => attempts = q_index
        /\ q_index > 0 => quality = step_quality[q_index]
        /\ (cmp_pc = "ladder" /\ q_index > 0) => size > max_size
        /\ (cmp_pc = "done" /\ q_index < Len(step_quality)) => size <= max_size
        /\ cmp_pc = "resize" => q_index = Len(step_quality) /\ size > max_size

\* a PNG target is encoded once, without a quality, before the fallback
PngSingleAttempt ==
    output_format = "PNG" =>
        /\ quality = 0
        /\ InLadder => attempts <= 1
        /\ (cmp_pc = "resize" /\ InLadder) => attempts = 1

\* C11: the quality ladder applies to JPEG only.  A JPEG target is encoded at
\* the levels 100, 95, 90, 85, 80, 70, 60, 50, 40, 30, 10 in that order and
\* stops at the first level that fits the budget; a PNG target is encoded
\* exactly once before the resize fallback begins, fitting or not.
C11_LadderIsJpegOnly == JpegLadder /\ PngSingleAttempt

-----------------------------------------------------------------------------
(* The floor of the resize fallback *)

\* C12: every image the resize fallback resizes and encodes has both width
\* and height strictly above 128 pixels: resizing stops once a dimension
\* would drop to the floor or below.
C12_ResizedAboveFloor ==
    rounds > 0 => encoded[1] > Floor /\ encoded[2] > Floor

-----------------------------------------------------------------------------
(* What reaches the upload *)

\* the names handed to the upload, and the names of the items whose file the
\* collection of this run copied out of an archive that held it
HandedNames == { handed[j] : j \in 1..Len(handed) }
CollectedFromArchive ==
    { item_names[i] : i \in { k \in collected : archives[k] = "with_file" } }
MissingNames == { item_names[i] : i \in missing }

\* a name is handed over at most once
HandedOnce ==
    \A j, k \in 1..Len(handed) : handed[j] = handed[k] => j = k

\* C13: in a run with download, collection and upload, an upload is attempted
\* for a name only if the collection of this run copied a file for it that
\* its archive held, never for an item reported missing in this run, whatever
\* sub_extracted held before and whatever the answer to the cleanup prompt,
\* and at most once per name.
C13_UploadOnlyWhatWasCollected ==
    "upload" \in reached =>
        /\ HandedNames \subseteq CollectedFromArchive
        /\ HandedNames \cap MissingNames = {}
        /\ HandedOnce

=============================================================================
